---- MODULE Spec2Model ----
(***************************************************************************)
(* Model of the DEX structural comparator of src/diff.py                   *)
(* (DEXDeepComparator and main).  Tables are Python lists, modelled as     *)
(* sequences and read with 0-based indices through At; dicts are           *)
(* functions; list(set(...)) is any enumeration of the set.                *)
(* The module also models DependencyChecker of                             *)
(* src/01_check_dependencies.py (variable checker) and SignalBuilder of    *)
(* src/build_signal.py (variable builder), each under a specification of   *)
(* its own.                                                                *)
(***************************************************************************)
EXTENDS Integers, Sequences, FiniteSets, TLC

VARIABLES pc, dex_files1, dex_files2, printed,
          classes1, classes2, methods1, methods2,
          class_comparison, method_comparison,
          swapped, prev_results,
          checker, builder

vars == <<pc, dex_files1, dex_files2, printed, classes1, classes2,
          methods1, methods2, class_comparison, method_comparison,
          swapped, prev_results, checker, builder>>

\* Largest number of rows of a class-definition table drawn by Init.
MaxClassDefs == 2
\* Largest number of rows of a method-id table drawn by Init.
MaxMethods == 2

----------------------------------------------------------------------------
(* Python helpers *)

\* t[i] of a Python list.
At(t, i) == t[i + 1]

\* len(t) > i >= 0: the index does not raise IndexError.
InRange(t, i) == i >= 0 /\ i < Len(t)

Range(s) == {s[i] : i \in 1..Len(s)}

\* list(set): every enumeration of S, each element once; the iteration
\* order of a Python set of str is not fixed between runs.
SetToList(S) ==
    {s \in [1..Cardinality(S) -> S] :
        \A i, j \in 1..Cardinality(S) : i # j => s[i] # s[j]}

EmptyMap == [x \in {} |-> x]

\* d[k] = v on a dict: a later assignment to the same key wins.
DictSet(d, k, v) == [x \in DOMAIN d \cup {k} |-> IF x = k THEN v ELSE d[x]]

----------------------------------------------------------------------------
(* The containers handed to the comparator *)

\* A string-table entry that is not valid UTF-8.
BadBytes == "\\xff"

\* bytes.decode("utf-8"): the text of the entry; raises on invalid bytes.
DecodeRaises(b) == b = BadBytes
Decode(b) == b

\* dex.get_strings(): indices 0..8.
StringTable ==
    <<"I", "La/A;", "La/B;", "La/C;", "Ljava/lang/Object;", "V", "VL", "m", "n">>

\* Names in lexicographic (code point) order, for sortedness of reports.
SortedNames == <<"La/A;", "La/B;", "La/C;">>
NameRank(n) == CHOOSE i \in 1..Len(SortedNames) : SortedNames[i] = n

\* dex.get_typeids(): two builds that number the types a.A and a.B
\* differently and a.C alike.
CanonicalTypes == <<0, 1, 2, 3, 4, 5>>
TypeTables == { CanonicalTypes, <<0, 2, 1, 3, 4, 5>> }

\* The type index of the type whose descriptor is string s.
TypeIdx(typeids, s) == CHOOSE i \in 0..(Len(typeids) - 1) : At(typeids, i) = s

\* dex.get_protoids(): ()V, ()I, (La/A;)V and (La/B;)V; the last two
\* differ in their parameter lists only, so they carry the same shorty
\* "VL" and the same return type.
ProtoTable ==
    << [shorty_idx |-> 5, return_type_idx |-> 5, parameters_off |-> 0],
       [shorty_idx |-> 0, return_type_idx |-> 0, parameters_off |-> 0],
       [shorty_idx |-> 6, return_type_idx |-> 5, parameters_off |-> 160],
       [shorty_idx |-> 6, return_type_idx |-> 5, parameters_off |-> 168] >>

\* What decoding a class-data block at offset 0 gives when the decoder
\* does not raise there: the bytes of the magic "dex\n" read as the four
\* uleb128 sizes 100, 101, 120 and 10.
HeaderAsClassData ==
    [static_fields |-> [i \in 1..100 |-> 0], instance_fields |-> [i \in 1..101 |-> 0],
     direct_methods |-> [i \in 1..120 |-> 0], virtual_methods |-> [i \in 1..10 |-> 0]]

\* dex.get_class_data(off) by offset: the decoded block, or an exception.
\* Offset 0 is the start of the header; the repository does not decide
\* what the decoder does there, the container records it in at_zero.
ClassDataAt(dex, off) ==
    CASE off = 0 /\ dex.at_zero = "block" ->
                      [raises |-> FALSE, data |-> HeaderAsClassData]
      [] off = 112 -> [raises |-> FALSE,
                       data |-> [static_fields |-> <<0>>, instance_fields |-> <<>>,
                                 direct_methods |-> <<0>>, virtual_methods |-> <<>>]]
      [] off = 128 -> [raises |-> FALSE,
                       data |-> [static_fields |-> <<0, 1>>, instance_fields |-> <<>>,
                                 direct_methods |-> <<0>>, virtual_methods |-> <<>>]]
      [] OTHER     -> [raises |-> TRUE, data |-> EmptyMap]

\* The shapes of a class definition drawn by Init.
ClassVariants ==
    { [access |-> <<"ACC_PUBLIC">>, super |-> 4, class_data_off |-> 112],
      [access |-> <<"ACC_PUBLIC">>, super |-> 4, class_data_off |-> 128],
      [access |-> <<>>, super |-> -1, class_data_off |-> 144] }

ClassStrings == {1, 2, 3}

\* One row of dex.get_classdef_data() for the class named by string s.
ClassDefRow(typeids, s, v) ==
    [class_idx |-> TypeIdx(typeids, s),
     access |-> v.access,
     \* without a superclass the index is the first one past the type table
     superclass_idx |-> IF v.super = -1 THEN Len(typeids)
                        ELSE TypeIdx(typeids, v.super),
     class_data_off |-> v.class_data_off]

\* Class-definition tables: at most MaxClassDefs classes, each class once,
\* in the order of their names.
RECURSIVE ClassDefTable(_, _, _)
ClassDefTable(typeids, choice, todo) ==
    IF todo = {} THEN <<>>
    ELSE LET s == CHOOSE x \in todo : \A y \in todo : x <= y
         IN <<ClassDefRow(typeids, s, choice[s])>>
                \o ClassDefTable(typeids, choice, todo \ {s})

ClassDefTablesOver(typeids, variants) ==
    UNION { { ClassDefTable(typeids, choice, S) : choice \in [S -> variants] }
            : S \in {T \in SUBSET ClassStrings : Cardinality(T) <= MaxClassDefs} }

ClassDefTables(typeids) == ClassDefTablesOver(typeids, ClassVariants)

\* The method-id rows drawn by Init, by class string, prototype and name
\* string: a.A.m with four overloads (two of one shorty and return type),
\* a.A.n and a.B.m.
MethodChoices ==
    { <<1, 0, 7>>, <<1, 1, 7>>, <<1, 2, 7>>, <<1, 3, 7>>, <<1, 0, 8>>, <<2, 0, 7>> }

MethodRow(typeids, c) ==
    [class_idx |-> TypeIdx(typeids, c[1]), proto_idx |-> c[2], name_idx |-> c[3]]

\* Method-id tables: at most MaxMethods distinct rows in any file order.
MethodTables(typeids) ==
    UNION { { [i \in 1..n |-> MethodRow(typeids, s[i])] :
                s \in {t \in [1..n -> MethodChoices] :
                         \A i, j \in 1..n : i # j => t[i] # t[j]} }
            : n \in 0..MaxMethods }

\* header['magic'] of a version 035 container.
DexMagic == <<"d", "e", "x", "\n", "0", "3", "5", "\\0">>

ContainerOf(magic, strings, at_zero, typeids, classdefs, methods) ==
    [magic |-> magic, strings |-> strings, at_zero |-> at_zero, typeids |-> typeids,
     protoids |-> ProtoTable, methods |-> methods, classdefs |-> classdefs]

\* A well-formed container.
Container(typeids, classdefs, methods) ==
    ContainerOf(DexMagic, StringTable, "raises", typeids, classdefs, methods)

DefaultMethods(typeids) == <<MethodRow(typeids, <<1, 0, 7>>)>>
DefaultClassDefs(typeids) ==
    <<ClassDefRow(typeids, 1,
                  [access |-> <<"ACC_PUBLIC">>, super |-> 4, class_data_off |-> 112])>>

\* Containers that differ in their class definitions.
ClassContainers ==
    UNION { { Container(t, cd, DefaultMethods(t)) : cd \in ClassDefTables(t) }
            : t \in TypeTables }

\* Containers that differ in their method tables.
MethodContainers ==
    UNION { { Container(t, DefaultClassDefs(t), m) : m \in MethodTables(t) }
            : t \in TypeTables }

\* Magics that do not begin with "dex\n": one whose next three bytes are
\* letters and one that begins with three digits.
BadMagics ==
    { <<"d", "e", "y", "\n", "0", "3", "5", "\\0">>,
      <<"0", "3", "5", "\n", "0", "3", "5", "\\0">> }

\* String tables with one entry that is not valid UTF-8: the descriptor
\* of a.B (index 2) or the method name m (index 7).
StringTables ==
    { StringTable,
      [i \in 1..Len(StringTable) |-> IF i = 3 THEN BadBytes ELSE StringTable[i]],
      [i \in 1..Len(StringTable) |-> IF i = 8 THEN BadBytes ELSE StringTable[i]] }

\* Shapes of a class definition with and without a class-data block.
ZeroOffsetVariants ==
    { [access |-> <<"ACC_PUBLIC">>, super |-> 4, class_data_off |-> 112],
      [access |-> <<"ACC_PUBLIC">>, super |-> 4, class_data_off |-> 0] }

\* Containers with an undecodable string, classes without class data, or
\* a magic that is not a DEX magic.
MalformedContainers ==
    { ContainerOf(DexMagic, st, z, CanonicalTypes, cd, DefaultMethods(CanonicalTypes)) :
        st \in StringTables, z \in {"raises", "block"},
        cd \in ClassDefTablesOver(CanonicalTypes, ZeroOffsetVariants) }
    \cup
    { ContainerOf(mg, StringTable, "raises", CanonicalTypes,
                  DefaultClassDefs(CanonicalTypes), DefaultMethods(CanonicalTypes)) :
        mg \in BadMagics }

----------------------------------------------------------------------------
(* DEXDeepComparator.__init__ and _dex_to_version *)

HasDexPrefix(magic) ==
    Len(magic) >= 4 /\ SubSeq(magic, 1, 4) = <<"d", "e", "x", "\n">>

\* DEXParser(fileobj=...): the outcomes of the parser's constructor, TRUE
\* when it raises.  The repository does not decide whether the parser
\* checks the magic, so a buffer without the DEX prefix may be refused or
\* accepted; a buffer with it is accepted.
ParserRaises(dex) == IF HasDexPrefix(dex.magic) THEN {FALSE} ELSE {TRUE, FALSE}

Digits == <<"0", "1", "2", "3", "4", "5", "6", "7", "8", "9">>
IsDigit(c) == \E i \in 1..Len(Digits) : Digits[i] = c
DigitVal(c) == (CHOOSE i \in 1..Len(Digits) : Digits[i] = c) - 1

DexPrefix == <<"d", "e", "x", "\n">>

\* bytes.removeprefix: the prefix is dropped when present, else nothing is.
RemovePrefix(b, p) ==
    IF Len(b) >= Len(p) /\ SubSeq(b, 1, Len(p)) = p
    THEN SubSeq(b, Len(p) + 1, Len(b))
    ELSE b

\* b[:n]
Take(b, n) == SubSeq(b, 1, IF Len(b) < n THEN Len(b) ELSE n)

\* int(b) of ASCII decimal digits; anything else raises ValueError.
IntRaises(b) == Len(b) = 0 \/ \E i \in 1..Len(b) : ~IsDigit(b[i])
RECURSIVE IntOf(_)
IntOf(b) ==
    IF Len(b) = 0 THEN 0
    ELSE 10 * IntOf(SubSeq(b, 1, Len(b) - 1)) + DigitVal(b[Len(b)])

VersionBytes(dex) == Take(RemovePrefix(dex.magic, DexPrefix), 3)
VersionRaises(dex) == IntRaises(VersionBytes(dex))
_dex_to_version(dex) == IntOf(VersionBytes(dex))

----------------------------------------------------------------------------
(* DEXDeepComparator._extract_class_details *)

\* strings[typeids[idx]].decode("utf-8") raises: an index out of range
\* or bytes that are not UTF-8.
TypeNameRaises(dex, idx) ==
    \/ ~InRange(dex.typeids, idx)
    \/ ~InRange(dex.strings, At(dex.typeids, idx))
    \/ DecodeRaises(At(dex.strings, At(dex.typeids, idx)))

TypeName(dex, idx) == Decode(At(dex.strings, At(dex.typeids, idx)))

\* try: class_data = dex.get_class_data(off)  except Exception: None
NoClassData == [static_fields |-> <<>>, instance_fields |-> <<>>,
                direct_methods |-> <<>>, virtual_methods |-> <<>>]
HasClassData(dex, class_def) == ~ClassDataAt(dex, class_def.class_data_off).raises
ClassData(dex, class_def) ==
    IF HasClassData(dex, class_def)
    THEN ClassDataAt(dex, class_def.class_data_off).data
    ELSE NoClassData

\* Mutant: get_class_data is called outside a try block.
DecodeFailurePropagates_NoTry(dex, class_def) ==
    ClassDataAt(dex, class_def.class_data_off).raises

\* except Exception: an exception of get_class_data never leaves the loop.
DecodeFailurePropagates(dex, class_def) == FALSE

\* Mutant: <= in place of <.
SuperclassInRange_OffByOne(dex, class_def) ==
    class_def.superclass_idx <= Len(dex.typeids)

\* if class_def["superclass_idx"] < len(typeids)
SuperclassInRange(dex, class_def) == class_def.superclass_idx < Len(dex.typeids)

SuperclassName(dex, class_def) ==
    IF SuperclassInRange(dex, class_def)
    THEN TypeName(dex, class_def.superclass_idx)
    ELSE "Unknown"

\* Handling one class definition raises.
ClassDefRaises(dex, class_def) ==
    \/ TypeNameRaises(dex, class_def.class_idx)
    \/ DecodeFailurePropagates(dex, class_def)
    \/ /\ SuperclassInRange(dex, class_def)
       /\ TypeNameRaises(dex, class_def.superclass_idx)

\* The entry stored under the class name.
ClassDetails(dex, class_def) ==
    [id |-> class_def.class_idx,
     access |-> class_def.access,
     superclass |-> SuperclassName(dex, class_def),
     static_fields_count |-> Len(ClassData(dex, class_def).static_fields),
     instance_fields_count |-> Len(ClassData(dex, class_def).instance_fields),
     direct_methods_count |-> Len(ClassData(dex, class_def).direct_methods),
     virtual_methods_count |-> Len(ClassData(dex, class_def).virtual_methods)]

ExtractClassesRaises(dex) ==
    \E i \in 1..Len(dex.classdefs) : ClassDefRaises(dex, dex.classdefs[i])

\* The loop over the first n class definitions.
RECURSIVE ClassDetailsUpTo(_, _)
ClassDetailsUpTo(dex, n) ==
    IF n = 0 THEN EmptyMap
    ELSE DictSet(ClassDetailsUpTo(dex, n - 1),
                 TypeName(dex, dex.classdefs[n].class_idx),
                 ClassDetails(dex, dex.classdefs[n]))

_extract_class_details(dex) == ClassDetailsUpTo(dex, Len(dex.classdefs))

----------------------------------------------------------------------------
(* DEXDeepComparator._extract_method_details *)

MethodRaises(dex, method_id) ==
    \/ TypeNameRaises(dex, method_id.class_idx)
    \/ ~InRange(dex.strings, method_id.name_idx)
    \/ ~InRange(dex.protoids, method_id.proto_idx)
    \/ LET proto == At(dex.protoids, method_id.proto_idx)
       IN \/ ~InRange(dex.strings, proto.shorty_idx)
          \/ ~InRange(dex.typeids, proto.return_type_idx)
          \/ ~InRange(dex.strings, At(dex.typeids, proto.return_type_idx))
          \/ DecodeRaises(At(dex.strings, method_id.name_idx))
          \/ DecodeRaises(At(dex.strings, proto.shorty_idx))
          \/ DecodeRaises(At(dex.strings, At(dex.typeids, proto.return_type_idx)))

\* The record appended for one row of the method-id table.
MethodDetails(dex, method_id) ==
    LET proto == At(dex.protoids, method_id.proto_idx)
    IN [id |-> method_id.class_idx,
        name |-> Decode(At(dex.strings, method_id.name_idx)),
        signature |-> Decode(At(dex.strings, proto.shorty_idx)),
        return_type |-> Decode(At(dex.strings, At(dex.typeids, proto.return_type_idx)))]

ExtractMethodsRaises(dex) ==
    \E i \in 1..Len(dex.methods) : MethodRaises(dex, dex.methods[i])

\* Mutant: the list of the class is replaced by the new record in place
\* of being appended to.
RECURSIVE MethodDetailsUpTo_Overwrite(_, _)
MethodDetailsUpTo_Overwrite(dex, n) ==
    IF n = 0 THEN EmptyMap
    ELSE DictSet(MethodDetailsUpTo_Overwrite(dex, n - 1),
                 TypeName(dex, dex.methods[n].class_idx),
                 <<MethodDetails(dex, dex.methods[n])>>)

\* The loop over the first n rows: each record is appended to the list
\* of its class, created on first use.
RECURSIVE MethodDetailsUpTo(_, _)
MethodDetailsUpTo(dex, n) ==
    IF n = 0 THEN EmptyMap
    ELSE LET sofar == MethodDetailsUpTo(dex, n - 1)
             class_name == TypeName(dex, dex.methods[n].class_idx)
             old == IF class_name \in DOMAIN sofar THEN sofar[class_name] ELSE <<>>
         IN DictSet(sofar, class_name, Append(old, MethodDetails(dex, dex.methods[n])))

_extract_method_details(dex) == MethodDetailsUpTo(dex, Len(dex.methods))

----------------------------------------------------------------------------
(* DEXDeepComparator._compare_classes *)

\* Mutant: the keys of the second mapping are not subtracted.
ClassesUniqueToDex1_NoSubtract(c1, c2) == DOMAIN c1

\* set(classes1.keys()) - set(classes2.keys())
ClassesUniqueToDex1(c1, c2) == DOMAIN c1 \ DOMAIN c2

\* Mutant: the line for side 1 copied without exchanging the operands.
ClassesUniqueToDex2_Copied(c1, c2) == DOMAIN c1 \ DOMAIN c2

\* set(classes2.keys()) - set(classes1.keys())
ClassesUniqueToDex2(c1, c2) == DOMAIN c2 \ DOMAIN c1

\* set(d1.keys()) & set(d2.keys())
CommonKeys(d1, d2) == DOMAIN d1 \cap DOMAIN d2

\* Mutant: the class index is left out of the comparison.
FieldDiffers_SkipId(class1_details, class2_details, key) ==
    /\ key # "id"
    /\ \/ key \notin DOMAIN class2_details
       \/ class1_details[key] # class2_details[key]

\* value1 != class2_details.get(key)
FieldDiffers(class1_details, class2_details, key) ==
    \/ key \notin DOMAIN class2_details
    \/ class1_details[key] # class2_details[key]

\* The keys of a class entry in the order the dict was filled.
ClassKeyOrder ==
    <<"id", "access", "superclass", "static_fields_count", "instance_fields_count",
      "direct_methods_count", "virtual_methods_count">>

\* Mutant: the loop over the keys is left at the first difference.
ClassDifferences_FirstOnly(class1_details, class2_details) ==
    LET differing == {i \in 1..Len(ClassKeyOrder) :
                        FieldDiffers(class1_details, class2_details, ClassKeyOrder[i])}
        first == {ClassKeyOrder[i] : i \in {j \in differing : \A k \in differing : j <= k}}
    IN [key \in first |->
          [dex1 |-> class1_details[key], dex2 |-> class2_details[key]]]

\* differences: one entry per key of class1_details whose value differs.
ClassDifferences(class1_details, class2_details) ==
    [key \in {k \in DOMAIN class1_details :
                FieldDiffers(class1_details, class2_details, k)} |->
        [dex1 |-> class1_details[key],
         dex2 |-> IF key \in DOMAIN class2_details
                  THEN class2_details[key] ELSE "None"]]

\* Mutant: the record is stored whether or not it is empty.
HasDifferences_Always(differences) == TRUE

\* if differences: only a non-empty record is stored.
HasDifferences(differences) == DOMAIN differences # {}

CommonClassesWithDifferences(c1, c2) ==
    [class_name \in {n \in CommonKeys(c1, c2) :
                       HasDifferences(ClassDifferences(c1[n], c2[n]))} |->
        ClassDifferences(c1[class_name], c2[class_name])]

\* Every report _compare_classes can return: the two lists come out of
\* list(set(...)) in any order.
_compare_classes(c1, c2) ==
    { [unique_to_dex1 |-> u1, unique_to_dex2 |-> u2,
       common_classes_with_differences |-> CommonClassesWithDifferences(c1, c2)] :
        u1 \in SetToList(ClassesUniqueToDex1(c1, c2)),
        u2 \in SetToList(ClassesUniqueToDex2(c1, c2)) }

----------------------------------------------------------------------------
(* DEXDeepComparator._compare_methods *)

\* set(methods1.keys()) - set(methods2.keys())
MethodClassesUniqueToDex1(m1, m2) == DOMAIN m1 \ DOMAIN m2

\* set(methods2.keys()) - set(methods1.keys())
MethodClassesUniqueToDex2(m1, m2) == DOMAIN m2 \ DOMAIN m1

\* Mutant: the raw index is part of the identity key.
method_key_WithId(m) == <<m.id, m.name, m.signature, m.return_type>>

method_key(m) == <<m.name, m.signature, m.return_type>>

\* {method_key(m) for m in methods}
MethodKeySet(methods) == {method_key(methods[i]) : i \in 1..Len(methods)}

\* Mutant: the keys are collected in place of the method records.
UniqueMethods_KeysOnly(methods, other) ==
    LET sel == SelectSeq(methods, LAMBDA m : method_key(m) \notin MethodKeySet(other))
    IN [i \in 1..Len(sel) |-> method_key(sel[i])]

\* Mutant: the membership test is inverted.
UniqueMethods_Inverted(methods, other) ==
    SelectSeq(methods, LAMBDA m : method_key(m) \in MethodKeySet(other))

\* [m for m in methods if method_key(m) not in other_set]
UniqueMethods(methods, other) ==
    SelectSeq(methods, LAMBDA m : method_key(m) \notin MethodKeySet(other))

\* methods_by_name[name], and the keys of methods_by_name
MethodsByName(methods, name) == SelectSeq(methods, LAMBDA m : m.name = name)
MethodNames(methods) == {methods[i].name : i \in 1..Len(methods)}

\* {(m["signature"], m["return_type"]) for m in methods_by_name[name]}
SignatureSet(methods) ==
    {<<methods[i].signature, methods[i].return_type>> : i \in 1..Len(methods)}

\* Mutant: union (|) in place of the symmetric difference (^).
unique_signatures_Union(dex1_signatures, dex2_signatures) ==
    dex1_signatures \cup dex2_signatures

\* Mutant: difference (-) in place of the symmetric difference (^).
unique_signatures_OneSided(dex1_signatures, dex2_signatures) ==
    dex1_signatures \ dex2_signatures

\* dex1_signatures ^ dex2_signatures
unique_signatures(dex1_signatures, dex2_signatures) ==
    (dex1_signatures \ dex2_signatures) \cup (dex2_signatures \ dex1_signatures)

\* Mutant: the divergent methods of the two sides are paired by position
\* (zip) in place of the two nested loops.
SignatureDifferencesOf_Zip(name, methods1_list, methods2_list) ==
    LET by1 == MethodsByName(methods1_list, name)
        by2 == MethodsByName(methods2_list, name)
        u == unique_signatures(SignatureSet(by1), SignatureSet(by2))
        d1 == SelectSeq(by1, LAMBDA m : <<m.signature, m.return_type>> \in u)
        d2 == SelectSeq(by2, LAMBDA m : <<m.signature, m.return_type>> \in u)
    IN [k \in 1..(IF Len(d1) < Len(d2) THEN Len(d1) ELSE Len(d2)) |->
          [method_name |-> name, dex1 |-> d1[k], dex2 |-> d2[k]]]

\* The entries the two nested loops append for one method name.
SignatureDifferencesOf(name, methods1_list, methods2_list) ==
    LET by1 == MethodsByName(methods1_list, name)
        by2 == MethodsByName(methods2_list, name)
        u == unique_signatures(SignatureSet(by1), SignatureSet(by2))
        d1 == SelectSeq(by1, LAMBDA m : <<m.signature, m.return_type>> \in u)
        d2 == SelectSeq(by2, LAMBDA m : <<m.signature, m.return_type>> \in u)
    IN [k \in 1..(Len(d1) * Len(d2)) |->
          [method_name |-> name,
           dex1 |-> d1[((k - 1) \div Len(d2)) + 1],
           dex2 |-> d2[((k - 1) % Len(d2)) + 1]]]

\* The loop over the common method names, taken in the order names.
RECURSIVE SignatureDifferences(_, _, _)
SignatureDifferences(names, methods1_list, methods2_list) ==
    IF names = <<>> THEN <<>>
    ELSE SignatureDifferencesOf(Head(names), methods1_list, methods2_list)
            \o SignatureDifferences(Tail(names), methods1_list, methods2_list)

\* class_method_comparison of one common class, the names taken in order names.
ClassMethodComparison(names, methods1_list, methods2_list) ==
    [unique_methods_to_dex1 |-> UniqueMethods(methods1_list, methods2_list),
     unique_methods_to_dex2 |-> UniqueMethods(methods2_list, methods1_list),
     method_signature_differences |->
        SignatureDifferences(names, methods1_list, methods2_list)]

\* The set of method names common to both sides is iterated in any order.
ClassMethodComparisons(methods1_list, methods2_list) ==
    { ClassMethodComparison(names, methods1_list, methods2_list) :
        names \in SetToList(MethodNames(methods1_list) \cap MethodNames(methods2_list)) }

\* Mutant: only the signature differences decide whether the class is added.
AnyDifferences_SignaturesOnly(cmc) == cmc.method_signature_differences # <<>>

\* any(class_method_comparison.values())
AnyDifferences(cmc) ==
    \/ cmc.unique_methods_to_dex1 # <<>>
    \/ cmc.unique_methods_to_dex2 # <<>>
    \/ cmc.method_signature_differences # <<>>

\* The per-class results of all common classes, before the filter.
AllClassMethodComparisons(m1, m2) ==
    {f \in [CommonKeys(m1, m2) ->
              UNION {ClassMethodComparisons(m1[c], m2[c]) : c \in CommonKeys(m1, m2)}] :
        \A c \in CommonKeys(m1, m2) : f[c] \in ClassMethodComparisons(m1[c], m2[c])}

\* Only add if there are differences.
WithMethodDifferences(f) == [c \in {x \in DOMAIN f : AnyDifferences(f[x])} |-> f[c]]

\* Every report _compare_methods can return.
_compare_methods(m1, m2) ==
    { [unique_classes_to_dex1 |-> u1, unique_classes_to_dex2 |-> u2,
       common_classes_with_method_differences |-> WithMethodDifferences(f)] :
        u1 \in SetToList(MethodClassesUniqueToDex1(m1, m2)),
        u2 \in SetToList(MethodClassesUniqueToDex2(m1, m2)),
        f \in AllClassMethodComparisons(m1, m2) }

----------------------------------------------------------------------------
(* main: the run of one comparison *)

None == "None"

Init ==
    /\ pc = "start"
    /\ \/ dex_files1 \in ClassContainers /\ dex_files2 \in ClassContainers
       \/ dex_files1 \in MethodContainers /\ dex_files2 \in MethodContainers
    /\ printed = <<>>
    /\ classes1 = None /\ classes2 = None
    /\ methods1 = None /\ methods2 = None
    /\ class_comparison = None /\ method_comparison = None
    /\ swapped = FALSE
    /\ prev_results = None
    /\ checker = None
    /\ builder = None

\* print(f"Error comparing files: {e}") for the three kinds of exception.
ParserError == "Error comparing files: <exception of DEXParser>"
VersionError == "Error comparing files: invalid literal for int() with base 10"
ExtractionError == "Error comparing files: <exception of the extraction>"

\* DEXDeepComparator.__init__: both buffers are parsed, then the two
\* versions and the endian tag are printed; a magic without a number
\* raises.  main catches every exception and prints it.
Construct ==
    /\ pc = "start"
    /\ \E r1 \in ParserRaises(dex_files1), r2 \in ParserRaises(dex_files2) :
        IF r1 \/ r2
        THEN pc' = "error" /\ printed' = <<ParserError>>
        ELSE IF VersionRaises(dex_files1)
        THEN pc' = "error" /\ printed' = <<VersionError>>
        ELSE IF VersionRaises(dex_files2)
        THEN /\ pc' = "error"
             /\ printed' = <<_dex_to_version(dex_files1), "endian_tag", VersionError>>
        ELSE /\ pc' = "constructed"
             /\ printed' = <<_dex_to_version(dex_files1), "endian_tag",
                             _dex_to_version(dex_files2)>>
    /\ UNCHANGED <<dex_files1, dex_files2, classes1, classes2, methods1, methods2,
                   class_comparison, method_comparison, swapped, prev_results>>
    /\ UNCHANGED <<checker, builder>>

\* compare_dex_files: the arguments of _compare_classes.
ExtractClasses ==
    /\ pc = "constructed"
    /\ IF ExtractClassesRaises(dex_files1) \/ ExtractClassesRaises(dex_files2)
       THEN /\ pc' = "error"
            /\ printed' = Append(printed, ExtractionError)
            /\ UNCHANGED <<classes1, classes2>>
       ELSE /\ pc' = "classes_extracted"
            /\ classes1' = _extract_class_details(dex_files1)
            /\ classes2' = _extract_class_details(dex_files2)
            /\ UNCHANGED printed
    /\ UNCHANGED <<dex_files1, dex_files2, methods1, methods2,
                   class_comparison, method_comparison, swapped, prev_results>>
    /\ UNCHANGED <<checker, builder>>

CompareClasses ==
    /\ pc = "classes_extracted"
    /\ class_comparison' \in _compare_classes(classes1, classes2)
    /\ pc' = "classes_compared"
    /\ UNCHANGED <<dex_files1, dex_files2, printed, classes1, classes2,
                   methods1, methods2, method_comparison, swapped, prev_results>>
    /\ UNCHANGED <<checker, builder>>

\* compare_dex_files: the arguments of _compare_methods.
ExtractMethods ==
    /\ pc = "classes_compared"
    /\ IF ExtractMethodsRaises(dex_files1) \/ ExtractMethodsRaises(dex_files2)
       THEN /\ pc' = "error"
            /\ printed' = Append(printed, ExtractionError)
            /\ UNCHANGED <<methods1, methods2>>
       ELSE /\ pc' = "methods_extracted"
            /\ methods1' = _extract_method_details(dex_files1)
            /\ methods2' = _extract_method_details(dex_files2)
            /\ UNCHANGED printed
    /\ UNCHANGED <<dex_files1, dex_files2, classes1, classes2,
                   class_comparison, method_comparison, swapped, prev_results>>
    /\ UNCHANGED <<checker, builder>>

CompareMethods ==
    /\ pc = "methods_extracted"
    /\ method_comparison' \in _compare_methods(methods1, methods2)
    /\ pc' = "methods_compared"
    /\ UNCHANGED <<dex_files1, dex_files2, printed, classes1, classes2,
                   methods1, methods2, class_comparison, swapped, prev_results>>
    /\ UNCHANGED <<checker, builder>>

\* print(json.dumps(comparison_results, indent=2))
PrintResults ==
    /\ pc = "methods_compared"
    /\ printed' = Append(printed, "comparison_results")
    /\ pc' = "done"
    /\ UNCHANGED <<dex_files1, dex_files2, classes1, classes2, methods1, methods2,
                   class_comparison, method_comparison, swapped, prev_results>>
    /\ UNCHANGED <<checker, builder>>

Next ==
    \/ Construct
    \/ ExtractClasses
    \/ CompareClasses
    \/ ExtractMethods
    \/ CompareMethods
    \/ PrintResults

Spec == Init /\ [][Next]_vars

\* The same run on containers that are malformed in one respect.
InitMalformed ==
    /\ pc = "start"
    /\ dex_files1 \in MalformedContainers
    /\ dex_files2 \in MalformedContainers
    /\ printed = <<>>
    /\ classes1 = None /\ classes2 = None
    /\ methods1 = None /\ methods2 = None
    /\ class_comparison = None /\ method_comparison = None
    /\ swapped = FALSE
    /\ prev_results = None
    /\ checker = None
    /\ builder = None

SpecMalformed == InitMalformed /\ [][Next]_vars

\* A second call of main on the same two files with the arguments
\* exchanged; the first report is kept for comparison.
RunSwapped ==
    /\ pc = "done"
    /\ ~swapped
    /\ swapped' = TRUE
    /\ prev_results' = [classes |-> class_comparison, methods |-> method_comparison]
    /\ dex_files1' = dex_files2
    /\ dex_files2' = dex_files1
    /\ pc' = "start"
    /\ printed' = <<>>
    /\ classes1' = None /\ classes2' = None
    /\ methods1' = None /\ methods2' = None
    /\ class_comparison' = None /\ method_comparison' = None
    /\ UNCHANGED <<checker, builder>>

NextSwap == Next \/ RunSwapped

SpecSwap == Init /\ [][NextSwap]_vars

----------------------------------------------------------------------------
(* Properties *)

\* The report is complete: main has printed it.
Reported == pc = "done"

ClassModelFields ==
    {"id", "access", "superclass", "static_fields_count", "instance_fields_count",
     "direct_methods_count", "virtual_methods_count"}

NoDuplicates(list) == \A i, j \in 1..Len(list) : i # j => list[i] # list[j]

\* The (signature, return_type) pairs of the methods called name in list.
OverloadsOf(list, name) ==
    {<<list[i].signature, list[i].return_type>> :
        i \in {j \in 1..Len(list) : list[j].name = name}}

MethodsNamed(list, name) == SelectSeq(list, LAMBDA m : m.name = name)

\* The per-class method result of class c in the report, all lists empty
\* when the class has no entry.
ReportedMethods(c) ==
    IF c \in DOMAIN method_comparison.common_classes_with_method_differences
    THEN method_comparison.common_classes_with_method_differences[c]
    ELSE [unique_methods_to_dex1 |-> <<>>, unique_methods_to_dex2 |-> <<>>,
          method_signature_differences |-> <<>>]

\* list b holds the methods of list a in some order, the id of each
\* method left out of the comparison.
SameMethodsUpToOrderAndId(a, b) ==
    /\ Len(a) = Len(b)
    /\ \E p \in [1..Len(a) -> 1..Len(a)] :
          /\ \A i, j \in 1..Len(a) : i # j => p[i] # p[j]
          /\ \A i \in 1..Len(a) :
                /\ b[i].name = a[p[i]].name
                /\ b[i].signature = a[p[i]].signature
                /\ b[i].return_type = a[p[i]].return_type

\* C1: comparing a container against itself gives an empty report: no
\* unique classes on either side of either comparison and no class with
\* field or method differences.
C1_IdentityEmptyReport ==
    (Reported /\ dex_files1 = dex_files2) =>
        /\ class_comparison.unique_to_dex1 = <<>>
        /\ class_comparison.unique_to_dex2 = <<>>
        /\ DOMAIN class_comparison.common_classes_with_differences = {}
        /\ method_comparison.unique_classes_to_dex1 = <<>>
        /\ method_comparison.unique_classes_to_dex2 = <<>>
        /\ DOMAIN method_comparison.common_classes_with_method_differences = {}

C1_Witness ==
    /\ Reported
    /\ dex_files1 = dex_files2
    /\ Len(dex_files1.methods) >= 2
    /\ dex_files1.methods[1].name_idx = dex_files1.methods[2].name_idx
    /\ dex_files1.methods[1].class_idx = dex_files1.methods[2].class_idx

\* C2: for a class on both sides whose method list on side 2 is a
\* reordering of the list on side 1, or the same list with other id
\* values, no unique method and no signature difference is reported.
C2_MatchingIgnoresOrderAndId ==
    Reported =>
        \A c \in DOMAIN methods1 \cap DOMAIN methods2 :
            SameMethodsUpToOrderAndId(methods1[c], methods2[c]) =>
                /\ ReportedMethods(c).unique_methods_to_dex1 = <<>>
                /\ ReportedMethods(c).unique_methods_to_dex2 = <<>>
                /\ ReportedMethods(c).method_signature_differences = <<>>

C2_Witness ==
    /\ Reported
    /\ \E c \in DOMAIN methods1 \cap DOMAIN methods2 :
          /\ SameMethodsUpToOrderAndId(methods1[c], methods2[c])
          /\ Len(methods1[c]) >= 2
          /\ methods1[c][1].id # methods2[c][1].id
          /\ methods1[c][1].signature # methods2[c][1].signature

\* Two class models have the same class names and every class has the
\* same access flags, superclass name and member counts on both sides.
SameClassesUpToId ==
    /\ DOMAIN classes1 = DOMAIN classes2
    /\ \A n \in DOMAIN classes1 :
          \A k \in ClassModelFields \ {"id"} : classes1[n][k] = classes2[n][k]

\* C3: class models that differ in the classes' numeric indices only
\* give no class with differences.
C3_ClassIdNoFalsePositive ==
    (Reported /\ SameClassesUpToId) =>
        DOMAIN class_comparison.common_classes_with_differences = {}

\* C4: a method name with the same set of (signature, return_type)
\* overloads on both sides of a class has no signature-difference entry.
C4_OverloadTolerance ==
    Reported =>
        \A c \in DOMAIN methods1 \cap DOMAIN methods2 :
            \A name \in MethodNames(methods1[c]) \cup MethodNames(methods2[c]) :
                OverloadsOf(methods1[c], name) = OverloadsOf(methods2[c], name) =>
                    \A i \in 1..Len(ReportedMethods(c).method_signature_differences) :
                        ReportedMethods(c).method_signature_differences[i].method_name
                            # name

\* The overloads of one name are listed in another order on side 2, in a
\* class that has an entry in the report.
C4_Witness ==
    /\ Reported
    /\ \E c \in DOMAIN methods1 \cap DOMAIN methods2 :
          \E name \in MethodNames(methods1[c]) :
              /\ Cardinality(OverloadsOf(methods1[c], name)) >= 2
              /\ OverloadsOf(methods1[c], name) = OverloadsOf(methods2[c], name)
              /\ MethodsNamed(methods1[c], name)[1].signature
                    # MethodsNamed(methods2[c], name)[1].signature

ReportedDifferences(n) ==
    IF n \in DOMAIN class_comparison.common_classes_with_differences
    THEN class_comparison.common_classes_with_differences[n]
    ELSE EmptyMap

\* C6: for every class on both sides the recorded differences are exactly
\* the fields of the class model whose values differ, each with the value
\* of side 1 under dex1 and the value of side 2 under dex2.
C6_DifferencesAreMismatchingFields ==
    Reported =>
        \A n \in DOMAIN classes1 \cap DOMAIN classes2 :
            /\ DOMAIN ReportedDifferences(n)
                  = {k \in ClassModelFields : classes1[n][k] # classes2[n][k]}
            /\ \A k \in DOMAIN ReportedDifferences(n) :
                  /\ ReportedDifferences(n)[k].dex1 = classes1[n][k]
                  /\ ReportedDifferences(n)[k].dex2 = classes2[n][k]

\* A class equal on both sides but for one static field against two.
C6_Witness ==
    /\ Reported
    /\ \E n \in DOMAIN classes1 \cap DOMAIN classes2 :
          /\ classes1[n].static_fields_count = 1
          /\ classes2[n].static_fields_count = 2
          /\ \A k \in ClassModelFields \ {"static_fields_count"} :
                classes1[n][k] = classes2[n][k]
          /\ DOMAIN ReportedDifferences(n) = {"static_fields_count"}
          /\ ReportedDifferences(n)["static_fields_count"].dex1 = 1
          /\ ReportedDifferences(n)["static_fields_count"].dex2 = 2

\* C7: the keys of common_classes_with_differences are the common classes
\* with at least one mismatching field, and no key maps to an empty record.
C7_OnlyClassesWithDifferences ==
    Reported =>
        /\ DOMAIN class_comparison.common_classes_with_differences
              = {n \in DOMAIN classes1 \cap DOMAIN classes2 :
                    \E k \in ClassModelFields : classes1[n][k] # classes2[n][k]}
        /\ \A n \in DOMAIN class_comparison.common_classes_with_differences :
              DOMAIN class_comparison.common_classes_with_differences[n] # {}

\* Two common classes, one equal on both sides and one not.
C7_Witness ==
    /\ Reported
    /\ \E n, o \in DOMAIN classes1 \cap DOMAIN classes2 :
          /\ classes1[n] = classes2[n]
          /\ classes1[o] # classes2[o]
          /\ n \notin DOMAIN class_comparison.common_classes_with_differences
          /\ o \in DOMAIN class_comparison.common_classes_with_differences

\* C8: each unique list holds, each once, exactly the keys of its own
\* mapping that are not keys of the other mapping.
C8_UniqueListsAreKeyDifferences ==
    Reported =>
        /\ NoDuplicates(class_comparison.unique_to_dex1)
        /\ NoDuplicates(class_comparison.unique_to_dex2)
        /\ NoDuplicates(method_comparison.unique_classes_to_dex1)
        /\ NoDuplicates(method_comparison.unique_classes_to_dex2)
        /\ Range(class_comparison.unique_to_dex1) = DOMAIN classes1 \ DOMAIN classes2
        /\ Range(class_comparison.unique_to_dex2) = DOMAIN classes2 \ DOMAIN classes1
        /\ Range(method_comparison.unique_classes_to_dex1)
              = DOMAIN methods1 \ DOMAIN methods2
        /\ Range(method_comparison.unique_classes_to_dex2)
              = DOMAIN methods2 \ DOMAIN methods1

\* A class on both sides, one on side 1 only and one on side 2 only.
C8_Witness ==
    /\ Reported
    /\ DOMAIN classes1 \cap DOMAIN classes2 # {}
    /\ Len(class_comparison.unique_to_dex1) = 1
    /\ Len(class_comparison.unique_to_dex2) = 1

\* C9: the names unique to side 1 when comparing (X, Y) are the names
\* unique to side 2 when comparing (Y, X), and the other way round, in
\* the class report and in the method report.
C9_UniqueSetsSymmetric ==
    (Reported /\ swapped) =>
        /\ Range(class_comparison.unique_to_dex2)
              = Range(prev_results.classes.unique_to_dex1)
        /\ Range(class_comparison.unique_to_dex1)
              = Range(prev_results.classes.unique_to_dex2)
        /\ Range(method_comparison.unique_classes_to_dex2)
              = Range(prev_results.methods.unique_classes_to_dex1)
        /\ Range(method_comparison.unique_classes_to_dex1)
              = Range(prev_results.methods.unique_classes_to_dex2)

C9_Witness ==
    /\ Reported
    /\ swapped
    /\ Len(prev_results.classes.unique_to_dex1) = 2
    /\ Len(prev_results.classes.unique_to_dex2) = 1
    /\ Len(class_comparison.unique_to_dex2) = 2

IsSorted(list) ==
    \A i, j \in 1..Len(list) : i < j => NameRank(list[i]) < NameRank(list[j])

\* C10: the four unique-name lists of the report are in lexicographic
\* order of the names.
C10_UniqueListsSorted ==
    Reported =>
        /\ IsSorted(class_comparison.unique_to_dex1)
        /\ IsSorted(class_comparison.unique_to_dex2)
        /\ IsSorted(method_comparison.unique_classes_to_dex1)
        /\ IsSorted(method_comparison.unique_classes_to_dex2)

\* The (name, signature, return_type) of a method record.
KeyOf(m) == <<m.name, m.signature, m.return_type>>
KeysOf(list) == {KeyOf(list[i]) : i \in 1..Len(list)}

\* The records of list, in file order, whose key no record of other carries.
RecordsWithKeyAbsentFrom(list, other) ==
    SelectSeq(list, LAMBDA m : \A i \in 1..Len(other) : KeyOf(other[i]) # KeyOf(m))

\* C11: for every class on both sides unique_methods_to_dex1 holds the
\* full records of exactly the methods of side 1 whose (name, signature,
\* return_type) no method of the class on side 2 carries, and
\* unique_methods_to_dex2 the same with the sides exchanged.
C11_UniqueMethodsAreFullRecords ==
    Reported =>
        \A c \in DOMAIN methods1 \cap DOMAIN methods2 :
            /\ ReportedMethods(c).unique_methods_to_dex1
                  = RecordsWithKeyAbsentFrom(methods1[c], methods2[c])
            /\ ReportedMethods(c).unique_methods_to_dex2
                  = RecordsWithKeyAbsentFrom(methods2[c], methods1[c])

\* A class with a method on both sides and one more on each side only.
C11_Witness ==
    /\ Reported
    /\ \E c \in DOMAIN methods1 \cap DOMAIN methods2 :
          /\ Len(methods1[c]) = 2
          /\ Len(methods2[c]) = 2
          /\ Len(ReportedMethods(c).unique_methods_to_dex1) = 1
          /\ Len(ReportedMethods(c).unique_methods_to_dex2) = 1
          /\ ReportedMethods(c).unique_methods_to_dex1[1] \in Range(methods1[c])
          /\ ReportedMethods(c).unique_methods_to_dex1[1].id
                # ReportedMethods(c).unique_methods_to_dex2[1].id

\* The methods of list called name whose (signature, return_type) lies in
\* the symmetric difference of the overload sets of the two sides.
Divergent(list, other, name) ==
    LET mine == OverloadsOf(list, name)
        theirs == OverloadsOf(other, name)
    IN SelectSeq(list, LAMBDA m :
          /\ m.name = name
          /\ <<m.signature, m.return_type>> \in (mine \ theirs) \cup (theirs \ mine))

\* C12: for every class on both sides and every method name on both
\* sides, the signature differences for the name are the cross product of
\* the divergent methods of side 1 with the divergent methods of side 2;
\* their number is the product of the two counts.
C12_SignatureDifferencesAreCrossProduct ==
    Reported =>
        \A c \in DOMAIN methods1 \cap DOMAIN methods2 :
            \A name \in MethodNames(methods1[c]) \cap MethodNames(methods2[c]) :
                LET a == Divergent(methods1[c], methods2[c], name)
                    b == Divergent(methods2[c], methods1[c], name)
                    entries == SelectSeq(ReportedMethods(c).method_signature_differences,
                                         LAMBDA e : e.method_name = name)
                IN /\ Len(entries) = Len(a) * Len(b)
                   /\ Range(entries)
                         = {[method_name |-> name, dex1 |-> x, dex2 |-> y] :
                               x \in Range(a), y \in Range(b)}

\* Two divergent overloads on side 1 against one on side 2: two entries.
C12_Witness ==
    /\ Reported
    /\ \E c \in DOMAIN methods1 \cap DOMAIN methods2 :
          \E name \in MethodNames(methods1[c]) \cap MethodNames(methods2[c]) :
              /\ Cardinality(OverloadsOf(methods1[c], name)) = 2
              /\ Len(Divergent(methods1[c], methods2[c], name)) = 2
              /\ Len(Divergent(methods2[c], methods1[c], name)) = 1
              /\ Len(ReportedMethods(c).method_signature_differences) = 2

\* C13: the keys of common_classes_with_method_differences are the classes
\* of both mappings for which one of the three lists is not empty.
C13_OnlyClassesWithMethodDifferences ==
    Reported =>
        /\ DOMAIN method_comparison.common_classes_with_method_differences
              = {c \in DOMAIN methods1 \cap DOMAIN methods2 :
                    \/ RecordsWithKeyAbsentFrom(methods1[c], methods2[c]) # <<>>
                    \/ RecordsWithKeyAbsentFrom(methods2[c], methods1[c]) # <<>>
                    \/ \E name \in MethodNames(methods1[c]) \cap MethodNames(methods2[c]) :
                          /\ Divergent(methods1[c], methods2[c], name) # <<>>
                          /\ Divergent(methods2[c], methods1[c], name) # <<>>}
        /\ \A c \in DOMAIN method_comparison.common_classes_with_method_differences :
              LET r == method_comparison.common_classes_with_method_differences[c]
              IN \/ r.unique_methods_to_dex1 # <<>>
                 \/ r.unique_methods_to_dex2 # <<>>
                 \/ r.method_signature_differences # <<>>

\* A class with equal methods is left out, one with a unique method and
\* no signature difference is kept.
C13_Witness ==
    /\ Reported
    /\ \E c, d \in DOMAIN methods1 \cap DOMAIN methods2 :
          /\ c \notin DOMAIN method_comparison.common_classes_with_method_differences
          /\ d \in DOMAIN method_comparison.common_classes_with_method_differences
          /\ ReportedMethods(d).method_signature_differences = <<>>

\* The class models have been extracted.
ClassesExtracted ==
    pc \in {"classes_extracted", "classes_compared", "methods_extracted",
            "methods_compared", "done"}

MethodRecordKeys == {"id", "name", "signature", "return_type"}

\* C14: the diff engine never raises.  Every pair of models the
\* extractors produce has a report, the subscripts of the comparison find
\* their keys, the run does not end in the error handler, and every
\* disagreement of the two models (a class on one side only, a field with
\* two values, a method key on one side only) is recorded in the report.
C14_DiffNeverRaises ==
    /\ pc # "error"
    /\ pc = "classes_extracted" =>
          /\ _compare_classes(classes1, classes2) # {}
          /\ \A n \in DOMAIN classes1 : DOMAIN classes1[n] = ClassModelFields
          /\ \A n \in DOMAIN classes2 : DOMAIN classes2[n] = ClassModelFields
    /\ pc = "methods_extracted" =>
          /\ _compare_methods(methods1, methods2) # {}
          /\ \A c \in DOMAIN methods1 : \A i \in 1..Len(methods1[c]) :
                DOMAIN methods1[c][i] = MethodRecordKeys
          /\ \A c \in DOMAIN methods2 : \A i \in 1..Len(methods2[c]) :
                DOMAIN methods2[c][i] = MethodRecordKeys
    /\ Reported =>
          /\ \A n \in DOMAIN classes1 \ DOMAIN classes2 :
                n \in Range(class_comparison.unique_to_dex1)
          /\ \A n \in DOMAIN classes2 \ DOMAIN classes1 :
                n \in Range(class_comparison.unique_to_dex2)
          /\ \A n \in DOMAIN classes1 \cap DOMAIN classes2 :
                \A k \in ClassModelFields :
                    classes1[n][k] # classes2[n][k] =>
                        k \in DOMAIN ReportedDifferences(n)
          /\ \A c \in DOMAIN methods1 \ DOMAIN methods2 :
                c \in Range(method_comparison.unique_classes_to_dex1)
          /\ \A c \in DOMAIN methods2 \ DOMAIN methods1 :
                c \in Range(method_comparison.unique_classes_to_dex2)
          /\ \A c \in DOMAIN methods1 \cap DOMAIN methods2 :
                /\ \A i \in 1..Len(methods1[c]) :
                      KeyOf(methods1[c][i]) \notin KeysOf(methods2[c]) =>
                          methods1[c][i]
                             \in Range(ReportedMethods(c).unique_methods_to_dex1)
                /\ \A i \in 1..Len(methods2[c]) :
                      KeyOf(methods2[c][i]) \notin KeysOf(methods1[c]) =>
                          methods2[c][i]
                             \in Range(ReportedMethods(c).unique_methods_to_dex2)

\* Models that disagree in a class name and in two fields of a class.
C14_Witness ==
    /\ Reported
    /\ class_comparison.unique_to_dex1 # <<>>
    /\ \E n \in DOMAIN classes1 \cap DOMAIN classes2 :
          /\ classes1[n].access # classes2[n].access
          /\ classes1[n].superclass # classes2[n].superclass
          /\ {"access", "superclass"} \subseteq DOMAIN ReportedDifferences(n)

\* The name a class definition resolves to.
RowName(dex, class_def) == At(dex.strings, At(dex.typeids, class_def.class_idx))

\* C15: a class definition whose superclass_idx is not below the length
\* of the type table gets the superclass "Unknown"; extraction does not
\* raise, and the class and every other class of the container is emitted.
SuperclassUnknownIn(dex, classes) ==
    \A i \in 1..Len(dex.classdefs) :
        /\ RowName(dex, dex.classdefs[i]) \in DOMAIN classes
        /\ dex.classdefs[i].superclass_idx >= Len(dex.typeids) =>
              classes[RowName(dex, dex.classdefs[i])].superclass = "Unknown"

C15_MalformedSuperclassUnknown ==
    /\ pc # "error"
    /\ ClassesExtracted =>
          /\ SuperclassUnknownIn(dex_files1, classes1)
          /\ SuperclassUnknownIn(dex_files2, classes2)

\* Two classes, the first with a superclass index equal to the length of
\* the type table, the second with a superclass.
C15_Witness ==
    /\ ClassesExtracted
    /\ Len(dex_files1.classdefs) = 2
    /\ dex_files1.classdefs[1].superclass_idx = Len(dex_files1.typeids)
    /\ dex_files1.classdefs[2].superclass_idx < Len(dex_files1.typeids)
    /\ classes1[RowName(dex_files1, dex_files1.classdefs[1])].superclass = "Unknown"
    /\ classes1[RowName(dex_files1, dex_files1.classdefs[2])].superclass
          = "Ljava/lang/Object;"

NoMembers(entry) ==
    /\ entry.static_fields_count = 0
    /\ entry.instance_fields_count = 0
    /\ entry.direct_methods_count = 0
    /\ entry.virtual_methods_count = 0

ZeroOffsetNoMembersIn(dex, classes) ==
    \A i \in 1..Len(dex.classdefs) :
        dex.classdefs[i].class_data_off = 0 =>
            NoMembers(classes[RowName(dex, dex.classdefs[i])])

\* C16: a class definition with class_data_off = 0 has all four member
\* counts 0, whatever the decoder gives at offset 0.
C16_ZeroOffsetMeansNoMembers ==
    ClassesExtracted =>
        /\ ZeroOffsetNoMembersIn(dex_files1, classes1)
        /\ ZeroOffsetNoMembersIn(dex_files2, classes2)

\* The container without the class definitions whose class data fails
\* to decode.
WithoutFailing(dex) ==
    [dex EXCEPT !.classdefs =
        SelectSeq(dex.classdefs,
                  LAMBDA cd : ~ClassDataAt(dex, cd.class_data_off).raises)]

DecodeFailureLocalIn(dex, classes) ==
    /\ \A i \in 1..Len(dex.classdefs) :
          /\ RowName(dex, dex.classdefs[i]) \in DOMAIN classes
          /\ ClassDataAt(dex, dex.classdefs[i].class_data_off).raises =>
                NoMembers(classes[RowName(dex, dex.classdefs[i])])
    /\ \A n \in DOMAIN _extract_class_details(WithoutFailing(dex)) :
          classes[n] = _extract_class_details(WithoutFailing(dex))[n]

\* C17: when the class data of a class fails to decode the class is
\* emitted with four zero counts, extraction does not raise, and every
\* other class has the entry it has in the container without that class.
C17_DecodeFailureIsLocal ==
    /\ pc # "error"
    /\ ClassesExtracted =>
          /\ DecodeFailureLocalIn(dex_files1, classes1)
          /\ DecodeFailureLocalIn(dex_files2, classes2)

\* A class whose data fails to decode before a class with two static fields.
C17_Witness ==
    /\ ClassesExtracted
    /\ Len(dex_files1.classdefs) = 2
    /\ ClassDataAt(dex_files1, dex_files1.classdefs[1].class_data_off).raises
    /\ ~ClassDataAt(dex_files1, dex_files1.classdefs[2].class_data_off).raises
    /\ NoMembers(classes1[RowName(dex_files1, dex_files1.classdefs[1])])
    /\ classes1[RowName(dex_files1, dex_files1.classdefs[2])].static_fields_count = 2

HasBadString(dex) == \E i \in 1..Len(dex.strings) : dex.strings[i] = BadBytes

\* C18: a string-table entry that fails to decode does not abort the
\* extraction or the comparison: a run on containers with the DEX magic
\* does not end in the error handler.
C18_BadStringIsLocal ==
    (/\ HasDexPrefix(dex_files1.magic)
     /\ HasDexPrefix(dex_files2.magic)
     /\ HasBadString(dex_files1) \/ HasBadString(dex_files2)) =>
        pc # "error"

FatallyInvalid(dex) == ~HasDexPrefix(dex.magic)

\* The run ended in the constructor of the comparator.
ConstructFailed ==
    /\ pc = "error"
    /\ printed[Len(printed)] \in {ParserError, VersionError}

\* C19: a buffer whose first four bytes are not "dex\n" is refused when
\* the comparator is constructed: the run gets no further than the
\* constructor, so no table is read and no report is made.
C19_FatalHeaderRejection ==
    (FatallyInvalid(dex_files1) \/ FatallyInvalid(dex_files2)) =>
        (pc = "start" \/ ConstructFailed)

\* compare_dex_files has been called.
CompareRan ==
    \/ ClassesExtracted
    \/ pc = "error" /\ printed[Len(printed)] = ExtractionError

\* C20: when one of the two inputs is fatally invalid compare_dex_files
\* does not run and no report is printed.
C20_FatalInputAborts ==
    (FatallyInvalid(dex_files1) \/ FatallyInvalid(dex_files2)) =>
        (~CompareRan /\ pc # "done")

\* The method models have been extracted.
MethodsExtracted == pc \in {"methods_extracted", "methods_compared", "done"}

\* The record the claim describes for one row of the method-id table.
RowRecord(dex, row) ==
    [id |-> row.class_idx,
     name |-> dex.strings[row.name_idx + 1],
     signature |-> dex.strings[dex.protoids[row.proto_idx + 1].shorty_idx + 1],
     return_type |->
        dex.strings[dex.typeids[dex.protoids[row.proto_idx + 1].return_type_idx + 1] + 1]]

\* The name of the class that owns a row.
RowClass(dex, row) == dex.strings[dex.typeids[row.class_idx + 1] + 1]

RECURSIVE SumOfLengths(_, _)
SumOfLengths(methods, todo) ==
    IF todo = {} THEN 0
    ELSE LET c == CHOOSE x \in todo : TRUE
         IN Len(methods[c]) + SumOfLengths(methods, todo \ {c})

OneRecordPerRow(dex, methods) ==
    /\ SumOfLengths(methods, DOMAIN methods) = Len(dex.methods)
    /\ DOMAIN methods = {RowClass(dex, dex.methods[i]) : i \in 1..Len(dex.methods)}
    /\ \A c \in DOMAIN methods :
          LET rows == SelectSeq(dex.methods, LAMBDA row : RowClass(dex, row) = c)
          IN methods[c] = [k \in 1..Len(rows) |-> RowRecord(dex, rows[k])]

\* C21: _extract_method_details emits one record per row of the
\* method-id table: the lengths of the lists sum to the number of rows,
\* the list of a class holds the records of the rows of that class in
\* file order, and a record carries the name, the shorty and the return
\* type name of its row.
C21_OneRecordPerMethodRow ==
    MethodsExtracted =>
        /\ OneRecordPerRow(dex_files1, methods1)
        /\ OneRecordPerRow(dex_files2, methods2)

\* Two rows of one class with different prototypes on side 1, and rows
\* of two classes on side 2.
C21_Witness ==
    /\ MethodsExtracted
    /\ Len(dex_files1.methods) = 2
    /\ \E c \in DOMAIN methods1 :
          /\ Len(methods1[c]) = 2
          /\ methods1[c][1] # methods1[c][2]
          /\ methods1[c][1] = RowRecord(dex_files1, dex_files1.methods[1])
    /\ Len(dex_files2.methods) = 2
    /\ Cardinality(DOMAIN methods2) = 2

\* C22: in the result of every class the signature differences are, as
\* a set, the pairs of a method of unique_methods_to_dex1 and a method of
\* unique_methods_to_dex2 with one name; so a signature difference means
\* both unique lists are non-empty.
C22_SignatureDifferencesWithinUnique ==
    Reported =>
        \A c \in DOMAIN method_comparison.common_classes_with_method_differences :
            LET r == method_comparison.common_classes_with_method_differences[c]
            IN /\ Range(r.method_signature_differences)
                     = {[method_name |-> x.name, dex1 |-> x, dex2 |-> y] :
                           <<x, y>> \in
                              {p \in Range(r.unique_methods_to_dex1)
                                        \X Range(r.unique_methods_to_dex2) :
                                  p[1].name = p[2].name}}
               /\ r.method_signature_differences # <<>> =>
                     /\ r.unique_methods_to_dex1 # <<>>
                     /\ r.unique_methods_to_dex2 # <<>>

\* A class with a signature difference and a unique method of another
\* name that is in no signature difference.
C22_Witness ==
    /\ Reported
    /\ \E c \in DOMAIN method_comparison.common_classes_with_method_differences :
          LET r == method_comparison.common_classes_with_method_differences[c]
          IN /\ Len(r.method_signature_differences) = 1
             /\ Len(r.unique_methods_to_dex1) = 2
             /\ Len(r.unique_methods_to_dex2) = 1

Disjoint3(a, b, c) == a \cap b = {} /\ a \cap c = {} /\ b \cap c = {}

\* C23: in the class report unique_to_dex1, unique_to_dex2 and the keys
\* of common_classes_with_differences are pairwise disjoint, and so are
\* unique_classes_to_dex1, unique_classes_to_dex2 and the keys of
\* common_classes_with_method_differences in the method report.
C23_ReportPartsDisjoint ==
    Reported =>
        /\ Disjoint3(Range(class_comparison.unique_to_dex1),
                     Range(class_comparison.unique_to_dex2),
                     DOMAIN class_comparison.common_classes_with_differences)
        /\ Disjoint3(Range(method_comparison.unique_classes_to_dex1),
                     Range(method_comparison.unique_classes_to_dex2),
                     DOMAIN method_comparison.common_classes_with_method_differences)

\* A class report with all three parts non-empty.
C23_Witness ==
    /\ Reported
    /\ class_comparison.unique_to_dex1 # <<>>
    /\ class_comparison.unique_to_dex2 # <<>>
    /\ DOMAIN class_comparison.common_classes_with_differences # {}

----------------------------------------------------------------------------
(* DependencyChecker of src/01_check_dependencies.py *)

\* The variables of the comparator while another program runs.
DiffIdle ==
    /\ pc = "idle"
    /\ dex_files1 = None /\ dex_files2 = None
    /\ printed = <<>>
    /\ classes1 = None /\ classes2 = None
    /\ methods1 = None /\ methods2 = None
    /\ class_comparison = None /\ method_comparison = None
    /\ swapped = FALSE
    /\ prev_results = None

diffVars == <<pc, dex_files1, dex_files2, printed, classes1, classes2,
              methods1, methods2, class_comparison, method_comparison,
              swapped, prev_results>>

\* The executables the checks start.
Commands == {"git", "docker", "adb", "gcc", "make", "java"}

\* ./bundletool: no executable wrapper, a wrapper whose JAR is not a
\* file, or a wrapper with its JAR.
BundletoolStates == {"no_wrapper", "no_jar", "ok"}

\* sys.version.split()[0] of an interpreter that runs the script.
PythonVersions == { <<"3", ".", "9">>, <<"3", ".", "1", "2">> }

\* The machine the script runs on.
Environments ==
    [path : SUBSET Commands, bundletool : BundletoolStates, version : PythonVersions]

\* Python values whose truth is tested: a bool, or a tuple.
PyBool(b) == [type |-> "bool", val |-> b]
PyTuple(t) == [type |-> "tuple", val |-> t]

\* bool(v): a tuple is true when it is not empty.
Truthy(v) == IF v.type = "bool" THEN v.val ELSE Len(v.val) > 0

\* check_command: (True, version), or (False, None) on FileNotFoundError.
check_command(env, command) ==
    IF command \in env.path THEN <<TRUE, "version">> ELSE <<FALSE, None>>

\* print_result: the line printed, all_passed cleared when installed is
\* false, and the value stored under the name.
print_result(c, name, installed) ==
    [c EXCEPT !.printed = Append(@, <<name, IF Truthy(installed) THEN "Found"
                                                                 ELSE "Not found">>),
              !.all_passed = IF Truthy(installed) THEN @ ELSE FALSE,
              !.results = DictSet(@, name, installed)]

\* DependencyChecker() and the two header lines of run_all_checks.
InitChecker(env) ==
    [pc |-> "check_python", env |-> env, results |-> EmptyMap, all_passed |-> TRUE,
     printed |-> << <<"Checking dependencies...">>, <<"-">> >>, exit_status |-> None]

InitDeps ==
    /\ DiffIdle
    /\ builder = None
    /\ \E env \in Environments : checker = InitChecker(env)

check_python ==
    /\ checker.pc = "check_python"
    /\ checker' = [print_result(checker, "Python 3.x",
                                  PyBool(checker.env.version[1] = "3"))
                    EXCEPT !.pc = "check_git"]
    /\ UNCHANGED <<diffVars, builder>>

check_git ==
    /\ checker.pc = "check_git"
    /\ checker' = [print_result(checker, "Git",
                                  PyBool(check_command(checker.env, "git")[1]))
                    EXCEPT !.pc = "check_docker"]
    /\ UNCHANGED <<diffVars, builder>>

check_docker ==
    /\ checker.pc = "check_docker"
    /\ checker' = [print_result(checker, "Docker",
                                  PyBool(check_command(checker.env, "docker")[1]))
                    EXCEPT !.pc = "check_adb"]
    /\ UNCHANGED <<diffVars, builder>>

check_adb ==
    /\ checker.pc = "check_adb"
    /\ checker' = [print_result(checker, "ADB",
                                  PyBool(check_command(checker.env, "adb")[1]))
                    EXCEPT !.pc = "check_bundletool"]
    /\ UNCHANGED <<diffVars, builder>>

\* The wrapper names a JAR that is a file and java -jar starts.
BundletoolFound(env) == env.bundletool = "ok" /\ "java" \in env.path

check_bundletool ==
    /\ checker.pc = "check_bundletool"
    /\ checker' = [print_result(checker, "Bundletool",
                                  PyBool(BundletoolFound(checker.env)))
                    EXCEPT !.pc = "check_gcc"]
    /\ UNCHANGED <<diffVars, builder>>

\* installed = self.check_command("gcc"): the pair is not unpacked.
check_gcc ==
    /\ checker.pc = "check_gcc"
    /\ checker' = [print_result(checker, "gcc",
                                  PyTuple(check_command(checker.env, "gcc")))
                    EXCEPT !.pc = "check_make"]
    /\ UNCHANGED <<diffVars, builder>>

check_make ==
    /\ checker.pc = "check_make"
    /\ checker' = [print_result(checker, "make",
                                  PyBool(check_command(checker.env, "make")[1]))
                    EXCEPT !.pc = "report"]
    /\ UNCHANGED <<diffVars, builder>>

AllSatisfied == <<"All dependencies are satisfied!">>
SomeMissing == <<"Some dependencies are missing.">>

\* The end of run_all_checks.
Report ==
    /\ checker.pc = "report"
    /\ checker' =
          IF checker.all_passed
          THEN [checker EXCEPT !.printed = Append(Append(@, <<"-">>), AllSatisfied),
                               !.pc = "returned", !.exit_status = 0]
          ELSE [checker EXCEPT !.printed = Append(Append(@, <<"-">>), SomeMissing),
                               !.pc = "exited", !.exit_status = 1]
    /\ UNCHANGED <<diffVars, builder>>

NextDeps ==
    \/ check_python
    \/ check_git
    \/ check_docker
    \/ check_adb
    \/ check_bundletool
    \/ check_gcc
    \/ check_make
    \/ Report

SpecDeps == InitDeps /\ [][NextDeps]_vars

\* run_all_checks has ended.
ChecksEnded == checker.pc \in {"returned", "exited"}

\* The run reports failure.
ReportsFailure ==
    /\ ~checker.all_passed
    /\ SomeMissing \in Range(checker.printed)
    /\ checker.exit_status = 1

\* Every checked dependency is installed.
AllInstalled(env) ==
    /\ env.version[1] = "3"
    /\ {"git", "docker", "adb", "gcc", "make"} \subseteq env.path
    /\ BundletoolFound(env)

\* C24: run_all_checks reports failure exactly when one of Python 3,
\* git, docker, adb, bundletool, gcc and make is not installed; a missing
\* gcc makes the run fail.
C24_FailureIffDependencyMissing ==
    ChecksEnded => (ReportsFailure <=> ~AllInstalled(checker.env))

----------------------------------------------------------------------------
(* SignalBuilder of src/build_signal.py *)

\* Largest number of devices adb lists.
MaxDevices == 1
\* Largest number of APKs on the device or in a directory.
MaxApks == 2

\* Exit codes of the commands that are started.
ReturnCodes == {0, 1, 2}

\* What starting a command gives: Popen raises, or the process ends
\* with a return code.
CommandOutcomes ==
    {[raised |-> TRUE, rc |-> 0]} \cup {[raised |-> FALSE, rc |-> r] : r \in ReturnCodes}

\* args.version, or the version read from the device: empty when there
\* is none.
Versions == {"", "7.7.0"}
DfsChoices == {None, "chaos", "sort", "sort_reversed"}

\* SignalBuilder(args), before main has looked at the version.
InitBuilder(version, dfs, clean) ==
    [pc |-> "main", version |-> version, dfs |-> dfs, clean |-> clean,
     dfs_root_dir |-> None, started |-> <<>>, commands |-> <<>>, devices |-> <<>>,
     all_match |-> None, completed |-> FALSE, exit_status |-> None]

InitBuild ==
    /\ DiffIdle
    /\ checker = None
    /\ \E version \in Versions, dfs \in DfsChoices, clean \in BOOLEAN :
          builder = InitBuilder(version, dfs, clean)

\* The step is entered.
Start(b, step) == [b EXCEPT !.started = Append(@, step)]

\* sys.exit(status)
Exit(b, status) == [b EXCEPT !.pc = "exited", !.exit_status = status]

\* The step returns to build, which goes on with next.
Done(b, next) == IF b.pc = "exited" THEN b ELSE [b EXCEPT !.pc = next]

\* Mutant: the return code is never looked at.
CommandExits_Unchecked(check, return_code) == FALSE

\* if check and return_code != 0
CommandExits(check, return_code) == check /\ return_code # 0

\* run_command: an exception of Popen ends the process with status 1, a
\* checked non-zero return code with that code.
run_command(b, step, check, o) ==
    LET ran == [b EXCEPT !.commands =
                    Append(@, [step |-> step, check |-> check, outcome |-> o])]
    IN IF o.raised THEN Exit(ran, 1)
       ELSE IF CommandExits(check, o.rc) THEN Exit(ran, o.rc)
       ELSE ran

\* Commands run one after the other; none is started after an exit.
RECURSIVE run_commands(_, _, _, _)
run_commands(b, step, check, os) ==
    IF os = <<>> \/ b.pc = "exited" THEN b
    ELSE run_commands(run_command(b, step, check, Head(os)), step, check, Tail(os))

\* main: without a version the process exits before a builder exists.
BuilderMain ==
    /\ builder.pc = "main"
    /\ builder' = IF builder.version = "" THEN Exit(builder, 1)
                  ELSE [builder EXCEPT !.pc = "setup_directories"]
    /\ UNCHANGED <<diffVars, checker>>

\* os.makedirs may raise; build catches the exception and exits with 1.
setup_directories ==
    /\ builder.pc = "setup_directories"
    /\ \E raises \in BOOLEAN :
          builder' = LET b == Start(builder, "setup_directories")
                     IN IF raises THEN Exit(b, 1) ELSE Done(b, "clone_signal")
    /\ UNCHANGED <<diffVars, checker>>

clone_signal ==
    /\ builder.pc = "clone_signal"
    /\ \E raises \in BOOLEAN, o \in CommandOutcomes :
          builder' =
             LET b == Start(builder, "clone_signal")
             IN IF raises THEN Exit(b, 1)
                ELSE Done(run_command(b, "clone_signal", TRUE, o),
                          IF builder.dfs # None THEN "create_overlay_filesystem"
                          ELSE "build_docker_image")
    /\ UNCHANGED <<diffVars, checker>>

\* disorderfs, ps (get_disorderfs_pid) and prlimit, all checked.
create_overlay_filesystem ==
    /\ builder.pc = "create_overlay_filesystem"
    /\ \E raises \in BOOLEAN, os \in [1..3 -> CommandOutcomes] :
          builder' =
             LET b == Start(builder, "create_overlay_filesystem")
                 ran == run_commands(b, "create_overlay_filesystem", TRUE, os)
             IN IF raises THEN Exit(b, 1)
                ELSE IF ran.pc = "exited" THEN ran
                ELSE Done([ran EXCEPT !.dfs_root_dir = builder.dfs], "build_docker_image")
    /\ UNCHANGED <<diffVars, checker>>

build_docker_image ==
    /\ builder.pc = "build_docker_image"
    /\ \E o \in CommandOutcomes :
          builder' = Done(run_command(Start(builder, "build_docker_image"),
                                      "build_docker_image", TRUE, o),
                          "build_signal")
    /\ UNCHANGED <<diffVars, checker>>

build_signal ==
    /\ builder.pc = "build_signal"
    /\ \E o \in CommandOutcomes :
          builder' = Done(run_command(Start(builder, "build_signal"),
                                      "build_signal", TRUE, o),
                          "copy_bundle")
    /\ UNCHANGED <<diffVars, checker>>

\* shutil.copy2 raises when the bundle is not there.
copy_bundle ==
    /\ builder.pc = "copy_bundle"
    /\ \E raises \in BOOLEAN :
          builder' = LET b == Start(builder, "copy_bundle")
                     IN IF raises THEN Exit(b, 1)
                        ELSE Done(b, IF builder.version # "" THEN "check_adb_devices"
                                     ELSE "generate_apks")
    /\ UNCHANGED <<diffVars, checker>>

\* adb devices is not checked; without a device line the process exits.
check_adb_devices ==
    /\ builder.pc = "check_adb_devices"
    /\ \E o \in CommandOutcomes, device_lines \in 0..MaxDevices :
          builder' =
             LET ran == run_command(Start(builder, "check_adb_devices"),
                                    "check_adb_devices", FALSE, o)
                 found == [ran EXCEPT !.devices = <<device_lines>>]
             IN IF ran.pc = "exited" THEN ran
                ELSE IF device_lines = 0 THEN Exit(found, 1)
                ELSE Done(found, "generate_apks")
    /\ UNCHANGED <<diffVars, checker>>

\* What follows generate_apks and cleanup in build.
AfterCleanup(b) == IF b.version # "" THEN "pull_device_apks" ELSE "completed"

generate_apks ==
    /\ builder.pc = "generate_apks"
    /\ \E bundletool_exists \in BOOLEAN, o \in CommandOutcomes :
          builder' =
             LET b == Start(builder, "generate_apks")
             IN IF ~bundletool_exists THEN Exit(b, 1)
                ELSE Done(run_command(b, "generate_apks", TRUE, o),
                          IF builder.clean THEN "cleanup" ELSE AfterCleanup(builder))
    /\ UNCHANGED <<diffVars, checker>>

\* With an overlay: ps is checked, kill is not.
cleanup ==
    /\ builder.pc = "cleanup"
    /\ \E raises \in BOOLEAN, ps \in CommandOutcomes, kill \in CommandOutcomes :
          builder' =
             LET b == Start(builder, "cleanup")
             IN IF raises THEN Exit(b, 1)
                ELSE IF builder.dfs_root_dir = None THEN Done(b, AfterCleanup(builder))
                ELSE Done(run_commands(run_command(b, "cleanup", TRUE, ps),
                                       "cleanup", FALSE, <<kill>>),
                          AfterCleanup(builder))
    /\ UNCHANGED <<diffVars, checker>>

\* pm path is not checked; every adb pull is.
pull_device_apks ==
    /\ builder.pc = "pull_device_apks"
    /\ \E o \in CommandOutcomes, n \in 0..MaxApks :
       \E os \in [1..n -> CommandOutcomes] :
          builder' =
             LET ran == run_command(Start(builder, "pull_device_apks"),
                                    "pull_device_apks", FALSE, o)
             IN IF ran.pc = "exited" THEN ran
                ELSE IF n = 0 THEN Exit(ran, 1)
                ELSE Done(run_commands(ran, "pull_device_apks", TRUE, os),
                          "print_apk_summary")
    /\ UNCHANGED <<diffVars, checker>>

print_apk_summary ==
    /\ builder.pc = "print_apk_summary"
    /\ builder' = Done(Start(builder, "print_apk_summary"), "compare_apks")
    /\ UNCHANGED <<diffVars, checker>>

\* apkdiff is run, unchecked, for the built APKs that have a device APK
\* of the same name.
compare_apks ==
    /\ builder.pc = "compare_apks"
    /\ \E built \in 0..MaxApks, device \in 0..MaxApks, apkdiff_exists \in BOOLEAN :
       \E matching \in 0..(IF built < device THEN built ELSE device) :
       \E os \in [1..matching -> CommandOutcomes] :
          builder' =
             LET b == Start(builder, "compare_apks")
                 ran == run_commands(b, "compare_apks", FALSE, os)
             IN IF built = 0 \/ device = 0 THEN Exit(b, 1)
                ELSE IF ~apkdiff_exists THEN Exit(b, 1)
                ELSE IF ran.pc = "exited" THEN ran
                ELSE Done([ran EXCEPT !.all_match =
                              IF matching = built /\ \A i \in 1..matching : os[i].rc = 0
                              THEN "match" ELSE "mismatch"],
                          "completed")
    /\ UNCHANGED <<diffVars, checker>>

\* print("\nBuild completed successfully!")
BuildCompleted ==
    /\ builder.pc = "completed"
    /\ builder' = [builder EXCEPT !.completed = TRUE, !.pc = "finished",
                                  !.exit_status = 0]
    /\ UNCHANGED <<diffVars, checker>>

NextBuild ==
    \/ BuilderMain
    \/ setup_directories
    \/ clone_signal
    \/ create_overlay_filesystem
    \/ build_docker_image
    \/ build_signal
    \/ copy_bundle
    \/ check_adb_devices
    \/ generate_apks
    \/ cleanup
    \/ pull_device_apks
    \/ print_apk_summary
    \/ compare_apks
    \/ BuildCompleted

SpecBuild == InitBuild /\ [][NextBuild]_vars

\* The order of the steps for the given options.
StepOrder(dfs, clean) ==
    <<"setup_directories", "clone_signal">>
    \o (IF dfs # None THEN <<"create_overlay_filesystem">> ELSE <<>>)
    \o <<"build_docker_image", "build_signal", "copy_bundle", "check_adb_devices",
         "generate_apks">>
    \o (IF clean THEN <<"cleanup">> ELSE <<>>)
    \o <<"pull_device_apks", "print_apk_summary", "compare_apks">>

\* A checked command ended with a non-zero code.
CheckedFailure(c) == c.check /\ ~c.outcome.raised /\ c.outcome.rc # 0

ExitedNonZero == builder.pc = "exited" /\ builder.exit_status # 0

\* C25: build is fail-stop and ordered.  The steps started so far are a
\* prefix of the order of the claim; after a checked command with a
\* non-zero return code, or after check_adb_devices found no device, the
\* process has exited with a non-zero status and the failing step is the
\* last step started; the success message is printed only after every
\* step.
C25_BuildFailStopOrdered ==
    /\ Len(builder.started) <= Len(StepOrder(builder.dfs, builder.clean))
    /\ builder.started
          = SubSeq(StepOrder(builder.dfs, builder.clean), 1, Len(builder.started))
    /\ \A i \in 1..Len(builder.commands) :
          CheckedFailure(builder.commands[i]) =>
              /\ ExitedNonZero
              /\ i = Len(builder.commands)
              /\ builder.commands[i].step = builder.started[Len(builder.started)]
    /\ builder.devices = <<0>> =>
          /\ ExitedNonZero
          /\ builder.started[Len(builder.started)] = "check_adb_devices"
    /\ builder.completed =>
          /\ builder.started = StepOrder(builder.dfs, builder.clean)
          /\ builder.pc = "finished"
          /\ \A i \in 1..Len(builder.commands) : ~CheckedFailure(builder.commands[i])

\* A run with overlay and cleanup that printed the success message
\* although an unchecked command failed.
C25_Witness ==
    /\ builder.completed
    /\ builder.dfs # None
    /\ builder.clean
    /\ Len(builder.started) = 12
    /\ \E i \in 1..Len(builder.commands) :
          ~builder.commands[i].check /\ builder.commands[i].outcome.rc # 0

====
